---- MODULE Spec2Model ----
(***************************************************************************)
(* Model of the flight-fare optimizer: filter_flights (data_prep.py),      *)
(* find_cheapest_itinerary and find_multi_leg_itinerary (optimizer.py).    *)
(*                                                                         *)
(* A DataFrame is a sequence of flight records (its rows, in row order).   *)
(* Row labels are the positions of the rows: the callers hand over frames  *)
(* with unique labels, and the code uses a label only as the key of the    *)
(* row's decision variable.                                                *)
(*                                                                         *)
(* An optional argument is a set: None is the empty set and a given value  *)
(* v is the singleton {v}.                                                 *)
(***************************************************************************)
EXTENDS Integers, Sequences, FiniteSets, TLC

VARIABLES df, call, status, selected_indices, result

vars == <<df, call, status, selected_indices, result>>

-----------------------------------------------------------------------------
(* Bounds of the model                                                     *)

\* rows of a candidate set handed to find_multi_leg_itinerary
MaxFlights == 3

\* rows of a candidate set handed to find_cheapest_itinerary alone
MaxFares == 2

\* rows of a frame handed to filter_flights
MaxRows == 2

MaxPrice == 2

MaxDuration == 2

\* the largest max_stops a caller passes
MaxStops == 2

-----------------------------------------------------------------------------
(* Values                                                                  *)

None == {}

Some(v) == {v}

Val(o) == CHOOSE v \in o : TRUE

\* the cities that occur in candidate sets
Cities == {"A", "B", "C"}

\* the names a caller may pass as source / destination: "Y" and "Z" are in
\* no flight
CityNames == Cities \cup {"Y", "Z"}

\* the route map of the candidate sets: two ways from A to C, and a cycle
\* between B and C
Routes == {<<"A", "B">>, <<"B", "C">>, <<"A", "C">>, <<"C", "B">>}

Prices == 0 .. MaxPrice

Durations == 1 .. MaxDuration

TimeLabels == {"Afternoon", "Morning"}

\* Python's order of the label strings (str.__lt__ is lexicographic)
LabelRank(l) ==
    CASE l = "Afternoon" -> 1
      [] l = "Early_Morning" -> 2
      [] l = "Evening" -> 3
      [] l = "Late_Night" -> 4
      [] l = "Morning" -> 5
      [] l = "Night" -> 6

Flight(s, d, p, dep, arr, dur, st, cl) ==
    [source_city |-> s, destination_city |-> d, price |-> p,
     departure_time |-> dep, arrival_time |-> arr, duration |-> dur,
     stops |-> st, class |-> cl]

\* all sequences over U of length 0 .. n
SeqsUpTo(U, n) == UNION {[1 .. k -> U] : k \in 0 .. n}

Range(s) == {s[k] : k \in DOMAIN s}

-----------------------------------------------------------------------------
(* pandas / PuLP helpers                                                   *)

RECURSIVE SumPrice(_, _)
\* sum of the price column over the rows S of d
SumPrice(d, S) ==
    IF S = {} THEN 0
    ELSE LET i == CHOOSE x \in S : TRUE
         IN  d[i].price + SumPrice(d, S \ {i})

RECURSIVE Ascending(_)
\* [i for i in df.index if ...]: the members of S in index order
Ascending(S) ==
    IF S = {} THEN <<>>
    ELSE LET m == CHOOSE x \in S : \A y \in S : x <= y
         IN  <<m>> \o Ascending(S \ {m})

\* df.loc[indices]: the rows of d at the positions idx, in the order of idx
Rows(d, idx) == [k \in 1 .. Len(idx) |-> d[idx[k]]]

\* the objective value of an assignment (sel = the variables set to 1)
Objective(d, sel) == SumPrice(d, sel)

\* SolveOutcomes with the sense of the problem LpMaximize
SolveOutcomesMaximize(d, keys, feas) ==
    IF feas # {}
    THEN {[status |-> "Optimal", values |-> s] :
             s \in {x \in feas : \A y \in feas : Objective(d, x) >= Objective(d, y)}}
    ELSE {[status |-> "Infeasible", values |-> s] : s \in SUBSET keys}

\* prob.solve(PULP_CBC_CMD(msg=False)) on a 0/1 program over the variables
\* keys with the feasible assignments feas (an assignment is the set of the
\* variables at 1): an optimal assignment when there is one, any of the
\* optimal ones; when there is none the solver reports Infeasible and leaves
\* unspecified values in the variables.
SolveOutcomes(d, keys, feas) ==
    IF feas # {}
    THEN {[status |-> "Optimal", values |-> s] :
             s \in {x \in feas : \A y \in feas : Objective(d, x) <= Objective(d, y)}}
    ELSE {[status |-> "Infeasible", values |-> s] : s \in SUBSET keys}

\* a solve that ends without a conclusion (LpStatusNotSolved / Undefined):
\* the variables hold no solution, whatever they hold is unspecified
FailureOutcomes(d, keys) ==
    {[status |-> "Not Solved", values |-> s] : s \in SUBSET keys}

\* the ends of prob.solve: a conclusion and, when may_fail, also none
Solve(d, keys, feas, may_fail) ==
    SolveOutcomes(d, keys, feas) \cup (IF may_fail THEN FailureOutcomes(d, keys) ELSE {})

\* [i for i in df.index if flight_vars[i].value() == 1.0]
SelectedIndices(o) == Ascending(o.values)

Value(flights, total) == [kind |-> "value", flights |-> flights, total |-> total]

-----------------------------------------------------------------------------
(* find_cheapest_itinerary                                                 *)

\* CheapestFrame with the duration filter written df['duration'] < max_duration
CheapestFrameStrict(d, max_duration, preferred_departure, latest_arrival) ==
    LET i0 == [k \in 1 .. Len(d) |-> k]
        T1(i) == d[i].duration < Val(max_duration)
        i1 == IF max_duration # None THEN SelectSeq(i0, T1) ELSE i0
        T2(i) == d[i].departure_time = Val(preferred_departure)
        i2 == IF preferred_departure # None THEN SelectSeq(i1, T2) ELSE i1
        T3(i) == d[i].arrival_time = Val(latest_arrival)
        i3 == IF latest_arrival # None THEN SelectSeq(i2, T3) ELSE i2
    IN  i3

\* CheapestFrame with the duration filter written df['duration'] >= max_duration
CheapestFrameFlipped(d, max_duration, preferred_departure, latest_arrival) ==
    LET i0 == [k \in 1 .. Len(d) |-> k]
        T1(i) == d[i].duration >= Val(max_duration)
        i1 == IF max_duration # None THEN SelectSeq(i0, T1) ELSE i0
        T2(i) == d[i].departure_time = Val(preferred_departure)
        i2 == IF preferred_departure # None THEN SelectSeq(i1, T2) ELSE i1
        T3(i) == d[i].arrival_time = Val(latest_arrival)
        i3 == IF latest_arrival # None THEN SelectSeq(i2, T3) ELSE i2
    IN  i3

\* the index of df after the three constraint filters (df[mask] keeps the
\* labels whose row passes, in order)
CheapestFrame(d, max_duration, preferred_departure, latest_arrival) ==
    LET i0 == [k \in 1 .. Len(d) |-> k]
        T1(i) == d[i].duration <= Val(max_duration)
        i1 == IF max_duration # None THEN SelectSeq(i0, T1) ELSE i0
        T2(i) == d[i].departure_time = Val(preferred_departure)
        i2 == IF preferred_departure # None THEN SelectSeq(i1, T2) ELSE i1
        T3(i) == d[i].arrival_time = Val(latest_arrival)
        i3 == IF latest_arrival # None THEN SelectSeq(i2, T3) ELSE i2
    IN  i3

\* "SelectOneFlight": lpSum(flight_vars[i] for i in df.index) == 1
SelectOneFlight(keys) == {sel \in SUBSET keys : Cardinality(sel) = 1}

\* what the function returns once the solver ended with outcome o
CheapestReturn(d, o) ==
    [status |-> o.status,
     selected_indices |-> SelectedIndices(o),
     result |-> Value(Rows(d, SelectedIndices(o)), SumPrice(d, o.values))]

\* EmptyReturn raising instead of returning
EmptyReturnRaises ==
    [status |-> "none", selected_indices |-> <<>>,
     result |-> [kind |-> "error", flights |-> <<>>, total |-> 0]]

\* the early return on df.empty
EmptyReturn ==
    [status |-> "none", selected_indices |-> <<>>, result |-> Value(<<>>, 0)]

\* the returns of the function; may_fail: the solver may also end without
\* a conclusion
CheapestResults(d, max_duration, preferred_departure, latest_arrival, may_fail) ==
    LET idx == CheapestFrame(d, max_duration, preferred_departure, latest_arrival)
        keys == Range(idx)
    IN  IF idx = <<>>
        THEN {EmptyReturn}
        ELSE {CheapestReturn(d, o) : o \in Solve(d, keys, SelectOneFlight(keys), may_fail)}

find_cheapest_itinerary(d, max_duration, preferred_departure, latest_arrival) ==
    CheapestResults(d, max_duration, preferred_departure, latest_arrival, FALSE)

-----------------------------------------------------------------------------
(* find_multi_leg_itinerary                                                *)

all_cities(d) ==
    {d[i].source_city : i \in DOMAIN d} \cup {d[i].destination_city : i \in DOMAIN d}

in_flights(d, city) == {i \in DOMAIN d : d[i].destination_city = city}

out_flights(d, city) == {i \in DOMAIN d : d[i].source_city = city}

\* lpSum(flight_vars[i] for i in S) under the assignment sel
Count(sel, S) == Cardinality(sel \cap S)

\* the flow constraints the loop adds for one city
CityConstraint(d, source, destination, city, sel) ==
    IF city = source
    THEN /\ Count(sel, out_flights(d, city)) = 1
         /\ Count(sel, in_flights(d, city)) = 0
    ELSE IF city = destination
    THEN /\ Count(sel, in_flights(d, city)) = 1
         /\ Count(sel, out_flights(d, city)) = 0
    ELSE Count(sel, in_flights(d, city)) = Count(sel, out_flights(d, city))

MultiLegFeasible(d, source, destination) ==
    {sel \in SUBSET DOMAIN d :
        \A city \in all_cities(d) : CityConstraint(d, source, destination, city, sel)}

\* sort_values("departure_time"): the labels ascending; the default kind is
\* quicksort, which does not promise to keep rows with equal labels in their
\* order, so any arrangement with ascending labels is a possible outcome
SortOutcomes(d, S) ==
    {p \in [1 .. Cardinality(S) -> S] :
        /\ \A i, j \in DOMAIN p : i # j => p[i] # p[j]
        /\ \A i, j \in DOMAIN p :
              i < j => LabelRank(d[p[i]].departure_time) <= LabelRank(d[p[j]].departure_time)}

\* what the function returns once the solver ended with outcome o
MultiLegReturn(d, o) ==
    {[status |-> o.status,
      selected_indices |-> SelectedIndices(o),
      result |-> Value(Rows(d, p), SumPrice(d, o.values))] : p \in SortOutcomes(d, o.values)}

\* the returns of the function; may_fail as above
MultiLegResults(d, source, destination, may_fail) ==
    UNION {MultiLegReturn(d, o) :
              o \in Solve(d, DOMAIN d, MultiLegFeasible(d, source, destination), may_fail)}

find_multi_leg_itinerary(d, source, destination) ==
    MultiLegResults(d, source, destination, FALSE)

-----------------------------------------------------------------------------
(* filter_flights                                                          *)

StopLabels == {"zero", "One", "two_or_more", "three"}

\* Lower with the label compared as it is written
LowerOmitted(x) == x

\* str.lower() on the labels of the model
Lower(x) ==
    CASE x = "One" -> "one"
      [] x = "Zero" -> "zero"
      [] OTHER -> x

\* stop_mapping.get(x.lower(), 2)
StopNumber(x) ==
    LET l == Lower(x)
    IN  CASE l = "zero" -> 0
          [] l = "one" -> 1
          [] l = "two_or_more" -> 2
          [] OTHER -> 2

filter_flights(d, source, destination, max_stops, seat_class, preferred_departure, max_duration, max_price, direct_only) ==
    LET T1(f) == f.source_city = Val(source)
        f1 == IF direct_only /\ source # None THEN SelectSeq(d, T1) ELSE d
        T2(f) == f.destination_city = Val(destination)
        f2 == IF direct_only /\ destination # None THEN SelectSeq(f1, T2) ELSE f1
        T3(f) == f.class = Val(seat_class)
        f3 == IF seat_class # None THEN SelectSeq(f2, T3) ELSE f2
        T4(f) == StopNumber(f.stops) <= Val(max_stops)
        f4 == IF max_stops # None THEN SelectSeq(f3, T4) ELSE f3
        T5(f) == f.departure_time = Val(preferred_departure)
        f5 == IF preferred_departure # None THEN SelectSeq(f4, T5) ELSE f4
        T6(f) == f.duration <= Val(max_duration)
        f6 == IF max_duration # None THEN SelectSeq(f5, T6) ELSE f5
        T7(f) == f.price <= Val(max_price)
        f7 == IF max_price # None THEN SelectSeq(f6, T7) ELSE f6
    IN  f7

-----------------------------------------------------------------------------
(* The calls.  Every call is a pure function of its arguments: a behaviour *)
(* is one candidate set and one call on it.                                *)

NoCall == [op |-> "none"]

NoResult == [kind |-> "none", flights |-> <<>>, total |-> 0]

InitWith(U, n) ==
    /\ df \in SeqsUpTo(U, n)
    /\ call = NoCall
    /\ status = "none"
    /\ selected_indices = <<>>
    /\ result = NoResult

Opt(S) == {None} \cup {Some(v) : v \in S}

\* the label a caller asks for (the functions compare labels for equality
\* only, so one label stands for any)
AskedLabels == {"Morning"}

Return(r) ==
    /\ status' = r.status
    /\ selected_indices' = r.selected_indices
    /\ result' = r.result
    /\ UNCHANGED df

MultiLegCall(source, destination) ==
    [op |-> "find_multi_leg_itinerary", source |-> source, destination |-> destination]

CheapestCall(max_duration, preferred_departure, latest_arrival) ==
    [op |-> "find_cheapest_itinerary", max_duration |-> max_duration,
     preferred_departure |-> preferred_departure, latest_arrival |-> latest_arrival]

MultiLeg ==
    /\ call = NoCall
    /\ \E source \in CityNames, destination \in CityNames :
        /\ call' = MultiLegCall(source, destination)
        /\ \E r \in find_multi_leg_itinerary(df, source, destination) : Return(r)

Cheapest ==
    /\ call = NoCall
    /\ \E max_duration \in Opt(Durations), preferred_departure \in Opt(AskedLabels),
          latest_arrival \in Opt(AskedLabels) :
        /\ call' = CheapestCall(max_duration, preferred_departure, latest_arrival)
        /\ \E r \in find_cheapest_itinerary(df, max_duration, preferred_departure,
                                            latest_arrival) : Return(r)

Filter ==
    /\ call = NoCall
    /\ \E source \in Opt({"A"}), destination \in Opt({"B"}),
          max_stops \in Opt(0 .. MaxStops), seat_class \in Opt({"Business"}),
          preferred_departure \in Opt({"Evening"}), max_duration \in Opt({1}),
          max_price \in Opt({1}), direct_only \in BOOLEAN :
        /\ call' = [op |-> "filter_flights", source |-> source,
                    destination |-> destination, max_stops |-> max_stops,
                    seat_class |-> seat_class,
                    preferred_departure |-> preferred_departure,
                    max_duration |-> max_duration, max_price |-> max_price,
                    direct_only |-> direct_only]
        /\ status' = "none"
        /\ selected_indices' = <<>>
        /\ result' = [kind |-> "frame",
                      flights |-> filter_flights(df, source, destination, max_stops,
                                                 seat_class, preferred_departure,
                                                 max_duration, max_price, direct_only),
                      total |-> 0]
        /\ UNCHANGED df

MultiLegSolverMayFail ==
    /\ call = NoCall
    /\ \E source \in CityNames, destination \in CityNames :
        /\ call' = MultiLegCall(source, destination)
        /\ \E r \in MultiLegResults(df, source, destination, TRUE) : Return(r)

CheapestSolverMayFail ==
    /\ call = NoCall
    /\ \E max_duration \in Opt(Durations), preferred_departure \in Opt(AskedLabels),
          latest_arrival \in Opt(AskedLabels) :
        /\ call' = CheapestCall(max_duration, preferred_departure, latest_arrival)
        /\ \E r \in CheapestResults(df, max_duration, preferred_departure,
                                    latest_arrival, TRUE) : Return(r)

\* prob.solve raises (PulpSolverError: the solver could not be run); neither
\* function catches it
Raised == [kind |-> "error", flights |-> <<>>, total |-> 0]

MultiLegSolverRaises ==
    /\ call = NoCall
    /\ \E source \in CityNames, destination \in CityNames :
        call' = MultiLegCall(source, destination)
    /\ status' = "raised"
    /\ selected_indices' = <<>>
    /\ result' = Raised
    /\ UNCHANGED df

CheapestSolverRaises ==
    /\ call = NoCall
    /\ \E max_duration \in Opt(Durations), preferred_departure \in Opt(AskedLabels),
          latest_arrival \in Opt(AskedLabels) :
        /\ CheapestFrame(df, max_duration, preferred_departure, latest_arrival) # <<>>
        /\ call' = CheapestCall(max_duration, preferred_departure, latest_arrival)
    /\ status' = "raised"
    /\ selected_indices' = <<>>
    /\ result' = Raised
    /\ UNCHANGED df

\* the candidate sets: flights over the route map that differ in price
RouteFlights ==
    {Flight(c[1], c[2], p, "Morning", "Morning", 1, "zero", "Economy") :
        c \in Routes, p \in Prices}

\* ... flights of one route that differ in what the secondary constraints
\* read, and in price
FareFlights ==
    {Flight("A", "B", p, dep, arr, dur, "zero", "Economy") :
        p \in 1 .. MaxPrice, dep \in TimeLabels, arr \in TimeLabels, dur \in Durations}

\* ... flights of the acyclic routes that differ in the departure_time label
LegFlights ==
    {Flight(c[1], c[2], 1, dep, "Morning", 1, "zero", "Economy") :
        c \in Routes \ {<<"C", "B">>}, dep \in TimeLabels}

\* ... rows that differ in what filter_flights reads
RawFlights ==
    {Flight(s, "B", p, "Morning", "Morning", 1, st, "Economy") :
        s \in {"A", "B"}, p \in 1 .. MaxPrice, st \in StopLabels}

\* the place of a route flight in the listing of the candidate sets
RouteKey(f) ==
    LET r == <<f.source_city, f.destination_city>>
        k == CASE r = <<"A", "B">> -> 0
               [] r = <<"B", "C">> -> 1
               [] r = <<"A", "C">> -> 2
               [] r = <<"C", "B">> -> 3
    IN  k * (MaxPrice + 1) + f.price

\* find_multi_leg_itinerary reads the rows by label and the labels are all
\* alike here, so one listing of each collection of flights is taken: by
\* route, then by price.  (SpecSelectors takes every listing.)
Init ==
    /\ InitWith(RouteFlights, MaxFlights)
    /\ \A i, j \in DOMAIN df : i < j => RouteKey(df[i]) <= RouteKey(df[j])

Next == MultiLeg

Spec == Init /\ [][Next]_vars

InitCheapest == InitWith(FareFlights, MaxFares)

NextCheapest == Cheapest

SpecCheapest == InitCheapest /\ [][NextCheapest]_vars

InitSelectors == InitWith(LegFlights, MaxFlights)

NextSelectors == Cheapest \/ MultiLeg

SpecSelectors == InitSelectors /\ [][NextSelectors]_vars

InitFilter == InitWith(RawFlights, MaxRows)

NextFilter == Filter

SpecFilter == InitFilter /\ [][NextFilter]_vars

NextSolverFailure ==
    \/ CheapestSolverMayFail
    \/ MultiLegSolverMayFail
    \/ CheapestSolverRaises
    \/ MultiLegSolverRaises

SpecSolverFailure == InitSelectors /\ [][NextSolverFailure]_vars

-----------------------------------------------------------------------------
(* What the claims speak of                                                *)

IsMultiLeg == call.op = "find_multi_leg_itinerary"

IsCheapest == call.op = "find_cheapest_itinerary"

IsFilter == call.op = "filter_flights"

Empty == Value(<<>>, 0)

Min(S) == CHOOSE x \in S : \A y \in S : x <= y

RECURSIVE SimplePaths(_, _, _, _)
\* the sets of flights of d that form a directed path from the city at to
\* destination through cities outside visited, no city entered twice
SimplePaths(d, at, destination, visited) ==
    IF at = destination THEN {{}}
    ELSE UNION {{{i} \cup P :
                    P \in SimplePaths(d, d[i].destination_city, destination,
                                      visited \cup {d[i].destination_city})} :
                i \in {j \in DOMAIN d : /\ d[j].source_city = at
                                        /\ d[j].destination_city \notin visited}}

PathsOfCall == SimplePaths(df, call.source, call.destination, {call.source})

\* f satisfies the secondary constraints given in the call c
Satisfies(f, c) ==
    /\ c.max_duration # None => f.duration <= Val(c.max_duration)
    /\ c.preferred_departure # None => f.departure_time = Val(c.preferred_departure)
    /\ c.latest_arrival # None => f.arrival_time = Val(c.latest_arrival)

Candidates == {i \in DOMAIN df : Satisfies(df[i], call)}

\* the constraints of q are those of p, or looser
Looser(q, p) ==
    /\ \/ q.max_duration = None
       \/ p.max_duration # None /\ Val(q.max_duration) >= Val(p.max_duration)
    /\ q.preferred_departure \in {None, p.preferred_departure}
    /\ q.latest_arrival \in {None, p.latest_arrival}

CheapestCalls ==
    {CheapestCall(m, p, a) :
        m \in Opt(Durations), p \in Opt(AskedLabels), a \in Opt(AskedLabels)}

RECURSIVE StableOrder(_, _)
\* the rows S of d by departure_time label ascending, rows with the same
\* label in their order in d
StableOrder(d, S) ==
    IF S = {} THEN <<>>
    ELSE LET R(i) == LabelRank(d[i].departure_time)
             m == CHOOSE i \in S :
                      \A j \in S : R(i) < R(j) \/ (R(i) = R(j) /\ i <= j)
         IN  <<m>> \o StableOrder(d, S \ {m})

\* the number the claim gives the stops label
ClaimedStops(label) ==
    CASE label \in {"zero", "Zero", "ZERO"} -> 0
      [] label \in {"one", "One", "ONE"} -> 1
      [] OTHER -> 2

\* f passes every filter of the call c other than the stops filter
PassesOtherFilters(f, c) ==
    /\ c.direct_only /\ c.source # None => f.source_city = Val(c.source)
    /\ c.direct_only /\ c.destination # None => f.destination_city = Val(c.destination)
    /\ c.seat_class # None => f.class = Val(c.seat_class)
    /\ c.preferred_departure # None => f.departure_time = Val(c.preferred_departure)
    /\ c.max_duration # None => f.duration <= Val(c.max_duration)
    /\ c.max_price # None => f.price <= Val(c.max_price)

-----------------------------------------------------------------------------
(* The claims                                                              *)

\* C1: when source differs from destination and some directed path of
\* candidate flights leads from source to destination, the total price
\* find_multi_leg_itinerary returns is the least sum of prices over those paths.
C1_MinimumPathPrice ==
    IsMultiLeg /\ call.source # call.destination /\ PathsOfCall # {}
        => /\ result.kind = "value"
           /\ result.total = Min({SumPrice(df, P) : P \in PathsOfCall})

\* a two-leg path was returned although a dearer direct flight exists
C1_Witness ==
    /\ IsMultiLeg
    /\ Len(result.flights) = 2
    /\ result.total > 0
    /\ \E i \in DOMAIN df : /\ df[i].source_city = call.source
                            /\ df[i].destination_city = call.destination
                            /\ df[i].price > result.total

\* C2: the flights of every non-empty result of find_multi_leg_itinerary are
\* the flights of one simple path from source to destination.
C2_ResultIsSimplePath ==
    IsMultiLeg /\ result.flights # <<>>
        => /\ call.source # call.destination
           /\ Range(selected_indices) \in PathsOfCall

\* C3: when some candidate satisfies the given secondary constraints,
\* find_cheapest_itinerary returns exactly one flight, a candidate that
\* satisfies them and is no dearer than any other that does, and the total
\* price is that flight's price.
C3_CheapestIsMinimal ==
    IsCheapest /\ Candidates # {}
        => /\ result.kind = "value"
           /\ Len(result.flights) = 1
           /\ \E i \in Candidates : result.flights[1] = df[i]
           /\ \A j \in Candidates : result.flights[1].price <= df[j].price
           /\ result.total = result.flights[1].price

\* a constraint was given, it excludes a cheaper flight, and the dearer
\* flight that satisfies it was returned
C3_Witness ==
    /\ IsCheapest
    /\ call.max_duration # None
    /\ Len(result.flights) = 1
    /\ \E i \in DOMAIN df \ Candidates : df[i].price < result.total

\* C4: on an empty candidate set, and for find_cheapest_itinerary when no
\* candidate satisfies the secondary constraints, both functions return the
\* empty itinerary with total price 0 as a value, with no error.
C4_EmptyIsAValue ==
    /\ IsCheapest /\ Candidates = {} => result = Empty
    /\ IsMultiLeg /\ df = <<>> => result = Empty

\* candidates exist, none satisfies the constraints, and the call returned
C4_Witness ==
    /\ IsCheapest
    /\ df # <<>>
    /\ Candidates = {}
    /\ result.kind = "value"

\* C5: when source equals destination find_multi_leg_itinerary returns the
\* empty itinerary and total price 0.
C5_SameCityIsEmpty ==
    IsMultiLeg /\ call.source = call.destination => result = Empty

\* C6: on a non-empty candidate set with no directed path from source to a
\* different destination, find_multi_leg_itinerary returns the empty itinerary
\* and total price 0.
C6_NoPathIsEmpty ==
    IsMultiLeg /\ df # <<>> /\ call.source # call.destination /\ PathsOfCall = {}
        => result = Empty

\* C7: a solve that ends without an optimal or infeasible conclusion is
\* reported as an error, never returned as an (itinerary, total price) value.
C7_SolverFailureIsAnError ==
    status = "Not Solved" => result.kind = "error"

\* C8: the total price find_cheapest_itinerary returns under the constraints
\* of the call is at least the total price it returns on the same candidate
\* set under any looser constraints, unless the result is empty.
C8_Monotone ==
    IsCheapest =>
        \A q \in CheapestCalls :
            Looser(q, call) =>
                \A o \in find_cheapest_itinerary(df, q.max_duration,
                                                 q.preferred_departure, q.latest_arrival) :
                    \/ result.flights = <<>>
                    \/ result.total >= o.result.total

\* the constraints of the call are strictly tighter than some others under
\* which the total price is strictly lower
C8_Witness ==
    /\ IsCheapest
    /\ result.flights # <<>>
    /\ \E q \in CheapestCalls :
          /\ Looser(q, call)
          /\ q # call
          /\ \E o \in find_cheapest_itinerary(df, q.max_duration,
                                              q.preferred_departure, q.latest_arrival) :
                o.result.total < result.total

\* C9: the flights find_multi_leg_itinerary returns are in ascending order of
\* the departure_time label, flights of the same label in their order in the
\* candidate set.  Stated of the solves that end Optimal, so that what refutes
\* it is the order alone and not the flights an infeasible solve leaves.
C9_StableLabelOrder ==
    IsMultiLeg /\ status = "Optimal" =>
        result.flights = Rows(df, StableOrder(df, Range(selected_indices)))

\* C10: with max_stops given, filter_flights returns exactly the rows whose
\* stops label maps to a number <= max_stops (zero 0, one 1, two_or_more 2 in
\* any case of letters, any other label 2) among the rows the other given
\* filters keep, unaltered and in their original order.
C10_StopsFilter ==
    IsFilter /\ call.max_stops # None =>
        LET Keep(f) == /\ ClaimedStops(f.stops) <= Val(call.max_stops)
                       /\ PassesOtherFilters(f, call)
        IN  result.flights = SelectSeq(df, Keep)

\* under max_stops = 1 a row labelled "One" is kept and a row with an
\* unknown label is dropped
C10_Witness ==
    /\ IsFilter
    /\ call.max_stops = Some(1)
    /\ \E i \in DOMAIN df : df[i].stops = "three"
    /\ Len(result.flights) = 1
    /\ result.flights[1].stops = "One"

====
